---- MODULE Spec2Model ----
(***************************************************************************)
(* A model of src/playlist_logic.py: the song normalizer, the classifier,  *)
(* the playlist builder and merger, search, the random picker, the artist  *)
(* count and the history summary.                                          *)
(*                                                                         *)
(* Python values are tagged records (Py* below); a Python str is a         *)
(* sequence of one-character strings, so that lower(), strip(), int() and  *)
(* the `in` substring test are computed and not assumed.  A dict is a      *)
(* function whose DOMAIN is the set of keys present.  A list object that   *)
(* the code mutates in place lives in `heap` under an object id, so that   *)
(* two names for one list see each other's changes.                        *)
(***************************************************************************)
EXTENDS Integers, Sequences, FiniteSets, TLC

VARIABLES
    pc,            \* position of the calling program
    raw,           \* normalize_song: the raw record passed in
    normalized,    \* normalize_song(raw)
    renormalized,  \* normalize_song(normalize_song(raw))
    song,          \* classify_song: the song passed in
    profile,       \* classify_song / build_playlists: the profile passed in
    mood,          \* outcome of classify_song
    songs,         \* build_playlists / search_songs / most_common_artist: the list passed in
    playlists,     \* outcome of build_playlists; lucky_pick: the map passed in
    heap,          \* merge_playlists: list object id -> current contents
    a,             \* merge_playlists: first map, key -> list object id
    b,             \* merge_playlists: second map, key -> list object id
    merged,        \* merge_playlists: returned map, key -> list object id
    pre,           \* merge_playlists: heap as it was when the last call began
    mode,          \* lucky_pick: the mode passed in
    picked,        \* outcome of lucky_pick
    history,       \* history_summary: the list passed in
    counts,        \* history_summary(history)
    query,         \* search_songs: the query passed in
    field,         \* search_songs: the field passed in
    found,         \* search_songs(songs, query, field)
    top            \* most_common_artist(songs)

vars == <<pc, raw, normalized, renormalized, song, profile, mood, songs,
          playlists, heap, a, b, merged, pre, mode, picked, history, counts,
          query, field, found, top>>

\* Value of a variable that the specification at hand does not use.
Unused == "unused"

-----------------------------------------------------------------------------
(* Python values *)

PyNone     == [t |-> "none",  i |-> 0, s |-> <<>>, l |-> <<>>]
PyInt(n)   == [t |-> "int",   i |-> n, s |-> <<>>, l |-> <<>>]
\* a float with one binary digit after the point: PyFloat(h) is h/2
PyFloat(h) == [t |-> "float", i |-> h, s |-> <<>>, l |-> <<>>]
PyStr(cs)  == [t |-> "str",   i |-> 0, s |-> cs,   l |-> <<>>]
\* a list of str
PyList(ss) == [t |-> "list",  i |-> 0, s |-> <<>>, l |-> ss]

\* dict.get(key, default)
get(d, key, default) == IF key \in DOMAIN d THEN d[key] ELSE default

\* the dict d restricted to the keys in ks
Restrict(d, ks) == [k \in ks |-> d[k]]

-----------------------------------------------------------------------------
(* Python str operations *)

UpperCase == <<"A","B","C","D","E","F","G","H","I","J","K","L","M",
               "N","O","P","Q","R","S","T","U","V","W","X","Y","Z">>
LowerCase == <<"a","b","c","d","e","f","g","h","i","j","k","l","m",
               "n","o","p","q","r","s","t","u","v","w","x","y","z">>
Whitespace == {" ", "\t"}
Digits == <<"0","1","2","3","4","5","6","7","8","9">>

LowerChar(c) ==
    IF \E n \in 1..Len(UpperCase) : UpperCase[n] = c
    THEN LowerCase[CHOOSE n \in 1..Len(UpperCase) : UpperCase[n] = c]
    ELSE c

\* str.lower()
lower(cs) == [n \in 1..Len(cs) |-> LowerChar(cs[n])]

\* a strip that removes one whitespace character at each end only
StripOnce(cs) ==
    LET front == IF Len(cs) > 0 /\ cs[1] \in Whitespace THEN Tail(cs) ELSE cs
    IN  IF Len(front) > 0 /\ front[Len(front)] \in Whitespace
        THEN SubSeq(front, 1, Len(front) - 1) ELSE front

\* str.strip(): drops every leading and trailing whitespace character
strip(cs) ==
    LET keep == {n \in 1..Len(cs) : cs[n] \notin Whitespace}
    IN  IF keep = {} THEN <<>>
        ELSE SubSeq(cs, CHOOSE n \in keep : \A m \in keep : n <= m,
                        CHOOSE n \in keep : \A m \in keep : n >= m)

\* the `needle in hay` test of two str
Contains(hay, needle) ==
    \E n \in 0..(Len(hay) - Len(needle)) :
        SubSeq(hay, n + 1, n + Len(needle)) = needle

IsDigit(c) == \E n \in 1..10 : Digits[n] = c
DigitValue(c) == (CHOOSE n \in 1..10 : Digits[n] = c) - 1

RECURSIVE NatToStr(_)
NatToStr(n) ==
    IF n < 10 THEN <<Digits[n + 1]>>
    ELSE NatToStr(n \div 10) \o <<Digits[(n % 10) + 1]>>

\* str(value) of the builtin types
py_str(value) ==
    CASE value.t = "str"   -> value.s
      [] value.t = "none"  -> <<"N","o","n","e">>
      [] value.t = "int"   -> IF value.i < 0 THEN <<"-">> \o NatToStr(-value.i)
                              ELSE NatToStr(value.i)
      [] value.t = "float" ->
            LET h == IF value.i < 0 THEN -value.i ELSE value.i
                sign == IF value.i < 0 THEN <<"-">> ELSE <<>>
            IN  sign \o NatToStr(h \div 2) \o <<".">>
                     \o (IF h % 2 = 0 THEN <<"0">> ELSE <<"5">>)

\* bool(value): Python truthiness
truthy(value) ==
    CASE value.t = "str"   -> value.s # <<>>
      [] value.t = "none"  -> FALSE
      [] value.t = "int"   -> value.i # 0
      [] value.t = "float" -> value.i # 0
      [] value.t = "list"  -> value.l # <<>>

RECURSIVE DigitsToNat(_)
DigitsToNat(cs) ==
    IF cs = <<>> THEN 0
    ELSE 10 * DigitsToNat(SubSeq(cs, 1, Len(cs) - 1)) + DigitValue(cs[Len(cs)])

\* the literals int() accepts: digits, with single underscores between digits
IsIntBody(cs) ==
    /\ cs # <<>>
    /\ \A n \in 1..Len(cs) : IsDigit(cs[n]) \/ cs[n] = "_"
    /\ IsDigit(cs[1]) /\ IsDigit(cs[Len(cs)])
    /\ \A n \in 1..(Len(cs) - 1) : ~(cs[n] = "_" /\ cs[n + 1] = "_")

\* int(str): [ok |-> FALSE] stands for ValueError
py_int(cs) ==
    LET t == strip(cs)
        signed == t # <<>> /\ t[1] \in {"+", "-"}
        body == IF signed THEN Tail(t) ELSE t
        digits == SelectSeq(body, IsDigit)
    IN  IF IsIntBody(body)
        THEN [ok |-> TRUE,
              i |-> IF signed /\ t[1] = "-" THEN -DigitsToNat(digits)
                    ELSE DigitsToNat(digits)]
        ELSE [ok |-> FALSE, i |-> 0]

-----------------------------------------------------------------------------
(* Normalizer *)

normalize_input(value, lowercase) ==
    IF value.t = "none" THEN <<>>
    ELSE LET text == IF value.t # "str" THEN py_str(value) ELSE value.s
         IN  IF lowercase THEN strip(lower(text)) ELSE strip(text)

normalize_song(r) ==
    LET title  == normalize_input(get(r, "title", PyStr(<<>>)), FALSE)
        artist == normalize_input(get(r, "artist", PyStr(<<>>)), TRUE)
        genre  == normalize_input(get(r, "genre", PyStr(<<>>)), TRUE)
        energy0 == get(r, "energy", PyInt(0))
        energy == IF energy0.t = "str"
                  THEN (IF py_int(energy0.s).ok THEN PyInt(py_int(energy0.s).i)
                        ELSE PyInt(0))
                  ELSE energy0
        tags0 == get(r, "tags", PyList(<<>>))
        tags == IF tags0.t = "str" THEN PyList(<<tags0.s>>) ELSE tags0
    IN  [title  |-> PyStr(title),
         artist |-> PyStr(artist),
         genre  |-> PyStr(genre),
         energy |-> energy,
         tags   |-> tags]

-----------------------------------------------------------------------------
(* Specification of the Normalizer: normalize_song applied to a raw record, *)
(* then to its own result.                                                  *)

SongKeys == {"title", "artist", "genre", "energy", "tags"}

TitleInputs ==
    { PyNone, PyInt(42),
      PyStr(<<"G","o","!">>),
      PyStr(<<" "," ","L","O","F","I"," ">>),
      PyStr(<<"\t","s","l","e","e","p"," ","o","n">>) }

ArtistInputs ==
    { PyNone, PyStr(<<" ","A","C"," ","d","c","\t"," ">>), PyStr(<<" ">>) }

GenreInputs ==
    { PyInt(-7), PyStr(<<"P","u","n","k"," ","R","o","c","k">>), PyStr(<<"j","a","z","z">>) }

EnergyInputs ==
    { PyInt(5), PyInt(-1), PyNone, PyFloat(11), PyList(<<>>),
      PyStr(<<"7">>), PyStr(<<" ","3","\t">>), PyStr(<<"-","2">>), PyStr(<<"+","1","_","0">>),
      PyStr(<<"x">>), PyStr(<<>>), PyStr(<<"5",".","5">>), PyStr(<<"1","_","_","0">>) }

TagsInputs ==
    { PyNone, PyStr(<<"g","y","m">>), PyList(<<>>), PyList(<< <<"a">>, <<"B"," ">> >>) }

RawSongs ==
    { Restrict(full, ks) :
        full \in [title : TitleInputs, artist : ArtistInputs, genre : GenreInputs,
                  energy : EnergyInputs, tags : TagsInputs],
        ks \in SUBSET SongKeys }

NormalizeInit ==
    /\ pc = "start"
    /\ raw \in RawSongs
    /\ normalized = Unused /\ renormalized = Unused
    /\ song = Unused /\ profile = Unused /\ mood = Unused /\ songs = Unused
    /\ playlists = Unused /\ heap = Unused /\ a = Unused /\ b = Unused
    /\ merged = Unused /\ pre = Unused /\ mode = Unused /\ picked = Unused
    /\ history = Unused /\ counts = Unused /\ query = Unused /\ field = Unused
    /\ found = Unused /\ top = Unused

NormalizeSong ==
    /\ pc = "start"
    /\ normalized' = normalize_song(raw)
    /\ pc' = "normalized"
    /\ UNCHANGED <<raw, renormalized, song, profile, mood, songs, playlists, heap,
                   a, b, merged, pre, mode, picked, history, counts, query, field,
                   found, top>>

NormalizeAgain ==
    /\ pc = "normalized"
    /\ renormalized' = normalize_song(normalized)
    /\ pc' = "renormalized"
    /\ UNCHANGED <<raw, normalized, song, profile, mood, songs, playlists, heap,
                   a, b, merged, pre, mode, picked, history, counts, query, field,
                   found, top>>

NormalizeNext == NormalizeSong \/ NormalizeAgain

SpecNormalize == NormalizeInit /\ [][NormalizeNext]_vars

\* C5: in the song normalize_song returns, energy is an integer whatever the
\* raw record held: an int is kept, a str is parsed (0 when it does not
\* parse), and a value of any other type becomes 0.
C5_EnergyAlwaysInteger ==
    pc = "normalized" =>
        LET given == get(raw, "energy", PyInt(0))
        IN  /\ normalized.energy.t = "int"
            /\ given.t = "int" => normalized.energy = given
            /\ given.t = "str" =>
                  normalized.energy.i = (IF py_int(given.s).ok THEN py_int(given.s).i ELSE 0)
            /\ given.t \notin {"int", "str"} => normalized.energy = PyInt(0)

\* C7: normalize_song is idempotent: normalizing the song it returned gives
\* that song again.
C7_NormalizeIdempotent ==
    pc = "renormalized" => renormalized = normalized

\* C7's case: a record whose title, artist, genre, energy and tags all change
\* under normalization has been normalized twice.
C7_Witness ==
    /\ pc = "renormalized"
    /\ DOMAIN raw = SongKeys
    /\ \A k \in SongKeys : normalized[k] # raw[k]

-----------------------------------------------------------------------------
(* Classifier *)

DefaultHypeMinEnergy == 7
DefaultChillMaxEnergy == 3

hype_keywords ==
    { <<"r","o","c","k">>, <<"p","u","n","k">>, <<"p","a","r","t","y">> }
chill_keywords ==
    { <<"l","o","f","i">>, <<"a","m","b","i","e","n","t">>, <<"s","l","e","e","p">> }

\* what a call gives back: a value, or the exception it raised
Return(v)  == [raised |-> "", value |-> v]
Raise(exc) == [raised |-> exc, value |-> Unused]

\* the ordering operators are defined between int and float only
IsNumber(v) == v.t \in {"int", "float"}
Twice(v) == IF v.t = "int" THEN 2 * v.i ELSE v.i

\* classify_song with the Chill test made before the Hype test
ClassifyChillFirst(s, p) ==
    LET energy == get(s, "energy", PyInt(0))
        genre  == get(s, "genre", PyStr(<<>>))
        title  == get(s, "title", PyStr(<<>>))
        hype_min_energy  == get(p, "hype_min_energy", PyInt(DefaultHypeMinEnergy))
        chill_max_energy == get(p, "chill_max_energy", PyInt(DefaultChillMaxEnergy))
        favorite_genre   == get(p, "favorite_genre", PyStr(<<>>))
    IN  IF Twice(energy) <= Twice(chill_max_energy)
           \/ \E k \in chill_keywords : Contains(title.s, k)
        THEN Return("Chill")
        ELSE IF genre = favorite_genre \/ Twice(energy) >= Twice(hype_min_energy)
                \/ \E k \in hype_keywords : Contains(genre.s, k)
        THEN Return("Hype")
        ELSE Return("Mixed")

classify_song(s, p) ==
    LET energy == get(s, "energy", PyInt(0))
        genre  == get(s, "genre", PyStr(<<>>))
        title  == get(s, "title", PyStr(<<>>))
        hype_min_energy  == get(p, "hype_min_energy", PyInt(DefaultHypeMinEnergy))
        chill_max_energy == get(p, "chill_max_energy", PyInt(DefaultChillMaxEnergy))
        favorite_genre   == get(p, "favorite_genre", PyStr(<<>>))
        is_hype_keyword  == \E k \in hype_keywords : Contains(genre.s, k)
        is_chill_keyword == \E k \in chill_keywords : Contains(title.s, k)
    IN  \* `k in genre`, `k in title`: the right operand has to be a str
        IF genre.t # "str" \/ title.t # "str" THEN Raise("TypeError")
        \* `or` evaluates left to right and stops at the first true operand
        ELSE IF genre = favorite_genre THEN Return("Hype")
        ELSE IF ~(IsNumber(energy) /\ IsNumber(hype_min_energy)) THEN Raise("TypeError")
        ELSE IF Twice(energy) >= Twice(hype_min_energy) \/ is_hype_keyword
        THEN Return("Hype")
        ELSE IF ~(IsNumber(energy) /\ IsNumber(chill_max_energy)) THEN Raise("TypeError")
        ELSE IF Twice(energy) <= Twice(chill_max_energy) \/ is_chill_keyword
        THEN Return("Chill")
        ELSE Return("Mixed")

-----------------------------------------------------------------------------
(* Specification of the Classifier: classify_song applied to a canonical   *)
(* song (str title and genre, int energy) and a profile with any of its    *)
(* keys missing.                                                           *)

MaxEnergy == 8

CanonTitles ==
    { <<>>, <<"G","o","!">>, <<"m","y"," ","l","o","f","i">>, <<"L","O","F","I">>,
      <<"a","m","b","i","e","n","t">>, <<"S","l","e","e","p">>, <<"s","l","e","e","p","y">>,
      <<"r","o","c","k">> }

CanonGenres ==
    { <<>>, <<"j","a","z","z">>, <<"r","o","c","k">>, <<"p","o","p"," ","p","u","n","k">>,
      <<"p","a","r","t","y">>, <<"l","o","f","i">>, <<"r","o","c">> }

CanonSongs ==
    { [title |-> PyStr(ti), artist |-> PyStr(<<"a","c">>), genre |-> PyStr(g),
       energy |-> PyInt(e), tags |-> PyList(<<>>)] :
        ti \in CanonTitles, g \in CanonGenres, e \in 0..MaxEnergy }

ProfileKeys == {"hype_min_energy", "chill_max_energy", "favorite_genre"}

Profiles ==
    { Restrict(full, ks) :
        full \in [hype_min_energy : {PyInt(7), PyInt(5)},
                  chill_max_energy : {PyInt(3), PyInt(6)},
                  favorite_genre : {PyStr(<<"r","o","c","k">>), PyStr(<<"j","a","z","z">>),
                                    PyStr(<<>>)}],
        ks \in SUBSET ProfileKeys }

ClassifyInit ==
    /\ pc = "start"
    /\ song \in CanonSongs
    /\ profile \in Profiles
    /\ mood = Unused
    /\ raw = Unused /\ normalized = Unused /\ renormalized = Unused /\ songs = Unused
    /\ playlists = Unused /\ heap = Unused /\ a = Unused /\ b = Unused
    /\ merged = Unused /\ pre = Unused /\ mode = Unused /\ picked = Unused
    /\ history = Unused /\ counts = Unused /\ query = Unused /\ field = Unused
    /\ found = Unused /\ top = Unused

ClassifySong ==
    /\ pc = "start"
    /\ mood' = classify_song(song, profile)
    /\ pc' = "classified"
    /\ UNCHANGED <<raw, normalized, renormalized, song, profile, songs, playlists,
                   heap, a, b, merged, pre, mode, picked, history, counts, query,
                   field, found, top>>

ClassifyNext == ClassifySong

SpecClassify == ClassifyInit /\ [][ClassifyNext]_vars

\* the three tests as the decision order of the design states them
HypeRule(s, p) ==
    LET fav == IF "favorite_genre" \in DOMAIN p THEN p.favorite_genre.s ELSE <<>>
        hmin == IF "hype_min_energy" \in DOMAIN p THEN p.hype_min_energy.i ELSE 7
    IN  \/ s.genre.s = fav
        \/ s.energy.i >= hmin
        \/ \E k \in {<<"r","o","c","k">>, <<"p","u","n","k">>, <<"p","a","r","t","y">>} :
              \E n \in 1..Len(s.genre.s) : \E m \in n..Len(s.genre.s) :
                  SubSeq(s.genre.s, n, m) = k

ChillRule(s, p) ==
    LET cmax == IF "chill_max_energy" \in DOMAIN p THEN p.chill_max_energy.i ELSE 3
    IN  \/ s.energy.i <= cmax
        \/ \E k \in {<<"l","o","f","i">>, <<"a","m","b","i","e","n","t">>,
                     <<"s","l","e","e","p">>} :
              \E n \in 1..Len(s.title.s) : \E m \in n..Len(s.title.s) :
                  SubSeq(s.title.s, n, m) = k

\* C3: classify_song follows the first-match-wins order: "Hype" iff the Hype
\* rule matches, otherwise "Chill" iff the Chill rule matches, otherwise
\* "Mixed"; a song of the favorite genre is "Hype" whatever its energy, and
\* missing profile keys fall back to 7, 3 and "".
C3_ClassifyDecisionOrder ==
    pc = "classified" =>
        /\ mood.raised = ""
        /\ mood.value = "Hype"  <=> HypeRule(song, profile)
        /\ mood.value = "Chill" <=> ~HypeRule(song, profile) /\ ChillRule(song, profile)
        /\ mood.value = "Mixed" <=> ~HypeRule(song, profile) /\ ~ChillRule(song, profile)
        /\ ("favorite_genre" \in DOMAIN profile /\ song.genre = profile.favorite_genre)
              => mood.value = "Hype"

\* C3's case: a song that matches both rules (the favorite genre, at an
\* energy low enough for Chill) has been classified under a profile that
\* leaves the thresholds to their defaults.
C3_Witness ==
    /\ pc = "classified"
    /\ DOMAIN profile = {"favorite_genre"}
    /\ song.genre = profile.favorite_genre
    /\ song.energy.i <= 3
    /\ mood = Return("Hype")

-----------------------------------------------------------------------------
(* Playlist Builder *)

Moods == {"Hype", "Chill", "Mixed"}

\* normalized["mood"] = mood (a mood label is kept as a plain string)
WithMood(n, m) == [k \in DOMAIN n \cup {"mood"} |-> IF k = "mood" THEN m ELSE n[k]]

\* the `for song in songs` loop, from the playlists built so far; an
\* exception raised in the body ends the call
RECURSIVE build_loop(_, _, _)
build_loop(ss, p, built) ==
    IF ss = <<>> THEN Return(built)
    ELSE LET n == normalize_song(Head(ss))
             m == classify_song(n, p)
         IN  IF m.raised # "" THEN m
             ELSE build_loop(Tail(ss), p,
                             [built EXCEPT ![m.value] = Append(@, WithMood(n, m.value))])

build_playlists(ss, p) ==
    build_loop(ss, p, [Hype |-> <<>>, Chill |-> <<>>, Mixed |-> <<>>])

-----------------------------------------------------------------------------
(* Specification of the Playlist Builder: build_playlists applied to a list *)
(* of raw records and a profile.                                            *)

MaxSongs == 3

BuildSongs ==
    { [title |-> PyStr(<<"G","o","!">>), artist |-> PyStr(<<"A","C">>),
       genre |-> PyStr(<<"r","o","c","k">>), energy |-> PyInt(5)],
      [title |-> PyStr(<<"Q","u","i","e","t">>), genre |-> PyStr(<<"j","a","z","z">>),
       energy |-> PyInt(2)],
      [title |-> PyStr(<<"P","l","a","i","n">>), genre |-> PyStr(<<" ","P","o","p">>),
       energy |-> PyStr(<<"5">>)],
      [title |-> PyStr(<<"l","o","f","i">>), energy |-> PyFloat(11)],
      [title |-> PyInt(42), energy |-> PyStr(<<"9","x">>), tags |-> PyStr(<<"g","y","m">>)],
      [genre |-> PyStr(<<"J","a","z","z">>), energy |-> PyNone] }

SeqsUpTo(S, n) == UNION { [1..m -> S] : m \in 0..n }

BuildInit ==
    /\ pc = "start"
    /\ songs \in SeqsUpTo(BuildSongs, MaxSongs)
    /\ profile \in Profiles
    /\ playlists = Unused
    /\ raw = Unused /\ normalized = Unused /\ renormalized = Unused /\ song = Unused
    /\ mood = Unused /\ heap = Unused /\ a = Unused /\ b = Unused
    /\ merged = Unused /\ pre = Unused /\ mode = Unused /\ picked = Unused
    /\ history = Unused /\ counts = Unused /\ query = Unused /\ field = Unused
    /\ found = Unused /\ top = Unused

BuildPlaylists ==
    /\ pc = "start"
    /\ playlists' = build_playlists(songs, profile)
    /\ pc' = "built"
    /\ UNCHANGED <<raw, normalized, renormalized, song, profile, mood, songs,
                   heap, a, b, merged, pre, mode, picked, history, counts, query,
                   field, found, top>>

BuildNext == BuildPlaylists

SpecBuild == BuildInit /\ [][BuildNext]_vars

\* the positions of ms that hold the label k, in increasing order
RECURSIVE PositionsOf(_, _, _)
PositionsOf(ms, k, from) ==
    IF from > Len(ms) THEN <<>>
    ELSE (IF ms[from] = k THEN <<from>> ELSE <<>>) \o PositionsOf(ms, k, from + 1)

\* C4: build_playlists over N songs returns a map with the buckets "Hype",
\* "Chill", "Mixed" whose sizes sum to N, where every song carries the mood
\* of its bucket and each bucket keeps the input's relative order.
C4_BuildPartitionsInput ==
    pc = "built" =>
        /\ playlists.raised = ""
        /\ DOMAIN playlists.value = Moods
        /\ Len(playlists.value["Hype"]) + Len(playlists.value["Chill"])
              + Len(playlists.value["Mixed"]) = Len(songs)
        /\ \A k \in Moods : \A n \in 1..Len(playlists.value[k]) :
              playlists.value[k][n]["mood"] = k
        /\ \E ms \in [1..Len(songs) -> Moods] : \A k \in Moods :
              LET at == PositionsOf(ms, k, 1)
              IN  playlists.value[k] =
                      [n \in 1..Len(at) |-> WithMood(normalize_song(songs[at[n]]), k)]

\* C4 where no record's energy normalizes to a value the ordering operators
\* reject
C4_BuildPartitionsNumeric ==
    (\A n \in 1..Len(songs) : IsNumber(normalize_song(songs[n]).energy))
        => C4_BuildPartitionsInput

-----------------------------------------------------------------------------
(* Playlist Merger *)

\* The loop of merge_playlists over the keys in the order `order`; h is the
\* heap (a sequence: object id -> list contents) and m the map built so far.
\*   merged[key] = a.get(key, [])           binds key to a's own list object,
\*                                          or to a newly made empty list
\*   merged[key].extend(b.get(key, []))     appends to that object in place
RECURSIVE merge_loop(_, _, _, _, _)
merge_loop(order, x, y, h, m) ==
    IF order = <<>> THEN [heap |-> h, merged |-> m]
    ELSE LET key == Head(order)
             h1  == IF key \in DOMAIN x THEN h ELSE Append(h, <<>>)
             id  == IF key \in DOMAIN x THEN x[key] ELSE Len(h1)
             ext == IF key \in DOMAIN y THEN h1[y[key]] ELSE <<>>
             h2  == [h1 EXCEPT ![id] = @ \o ext]
         IN  merge_loop(Tail(order), x, y, h2,
                        [k \in DOMAIN m \cup {key} |-> IF k = key THEN id ELSE m[k]])

merge_playlists(x, y, h, order) == merge_loop(order, x, y, h, <<>>)

\* the orders in which a set of keys can be iterated
Orders(S) ==
    { o \in [1..Cardinality(S) -> S] : \A k \in S : \E n \in DOMAIN o : o[n] = k }

-----------------------------------------------------------------------------
(* Specification of the Playlist Merger: merge_playlists(a, b) called once  *)
(* and then once more with the same a and b.  The buckets of a and b are    *)
(* list objects of the heap; two buckets may be one object.                 *)

NumLists == 3
MaxBucket == 1

MergeSongs == {"s1", "s2"}
MergeKeys == {"Hype", "Chill"}

PlaylistMaps == UNION { [ks -> 1..NumLists] : ks \in SUBSET MergeKeys }

MergeInit ==
    /\ pc = "start"
    /\ heap \in [1..NumLists -> SeqsUpTo(MergeSongs, MaxBucket)]
    /\ a \in PlaylistMaps
    /\ b \in PlaylistMaps
    /\ merged = Unused
    /\ pre = heap
    /\ raw = Unused /\ normalized = Unused /\ renormalized = Unused /\ song = Unused
    /\ profile = Unused /\ mood = Unused /\ songs = Unused /\ playlists = Unused
    /\ mode = Unused /\ picked = Unused
    /\ history = Unused /\ counts = Unused /\ query = Unused /\ field = Unused
    /\ found = Unused /\ top = Unused

MergePlaylists ==
    /\ pc \in {"start", "merged"}
    /\ \E order \in Orders(DOMAIN a \cup DOMAIN b) :
          LET out == merge_playlists(a, b, heap, order)
          IN  /\ heap' = out.heap
              /\ merged' = out.merged
    /\ pre' = heap
    /\ pc' = IF pc = "start" THEN "merged" ELSE "merged again"
    /\ UNCHANGED <<raw, normalized, renormalized, song, profile, mood, songs,
                   playlists, a, b, mode, picked, history, counts, query,
                   field, found, top>>

MergeNext == MergePlaylists

SpecMerge == MergeInit /\ [][MergeNext]_vars

\* C1: merge_playlists(a, b) never mutates its inputs: after the call every
\* bucket of a and every bucket of b holds the songs it held before the call.
C1_MergeLeavesInputs ==
    pc # "start" =>
        /\ \A key \in DOMAIN a : heap[a[key]] = pre[a[key]]
        /\ \A key \in DOMAIN b : heap[b[key]] = pre[b[key]]

\* C6: the map merge_playlists(a, b) returns has the keys of a and of b, and
\* under each key a's songs as they were before the call (none if a lacks the
\* key) followed by b's songs as they were before the call (none if b lacks it).
C6_MergeIsConcatenation ==
    pc # "start" =>
        /\ DOMAIN merged = DOMAIN a \cup DOMAIN b
        /\ \A key \in DOMAIN merged :
              heap[merged[key]] =
                  (IF key \in DOMAIN a THEN pre[a[key]] ELSE <<>>)
                      \o (IF key \in DOMAIN b THEN pre[b[key]] ELSE <<>>)

\* no list object is a bucket twice, except as a's and b's bucket of one key
NoSharedBucket ==
    /\ \A j, k \in DOMAIN a : a[j] = a[k] => j = k
    /\ \A j, k \in DOMAIN b : b[j] = b[k] => j = k
    /\ \A j \in DOMAIN a : \A k \in DOMAIN b : a[j] = b[k] => j = k

\* C6 where the buckets are separate list objects
C6_MergeIsConcatenationUnshared == NoSharedBucket => C6_MergeIsConcatenation

-----------------------------------------------------------------------------
(* Picker *)

\* Python's None as a returned song (songs are named by plain strings here)
NoSong == "None"

\* random.choice(songs): any element; IndexError when songs is empty.
\* The set of outcomes the call can have.
random_choice_or_none(ss) ==
    IF ss = <<>> THEN { Raise("IndexError") }
    ELSE { Return(ss[n]) : n \in 1..Len(ss) }

\* the sequence the mode selects
candidates(pl, m) ==
    IF m = "hype" THEN get(pl, "Hype", <<>>)
    ELSE IF m = "chill" THEN get(pl, "Chill", <<>>)
    ELSE get(pl, "Hype", <<>>) \o get(pl, "Chill", <<>>)

lucky_pick(pl, m) == random_choice_or_none(candidates(pl, m))

-----------------------------------------------------------------------------
(* Specification of the Picker: lucky_pick applied to a playlist map with   *)
(* any of its buckets missing or empty, under each mode.                    *)

MaxPickBucket == 2

PickSongs == {"s1", "s2"}
Modes == {"hype", "chill", "any", "party"}

PickMaps ==
    UNION { [ks -> SeqsUpTo(PickSongs, MaxPickBucket)] : ks \in SUBSET Moods }

PickInit ==
    /\ pc = "start"
    /\ playlists \in PickMaps
    /\ mode \in Modes
    /\ picked = Unused
    /\ raw = Unused /\ normalized = Unused /\ renormalized = Unused /\ song = Unused
    /\ profile = Unused /\ mood = Unused /\ songs = Unused
    /\ heap = Unused /\ a = Unused /\ b = Unused /\ merged = Unused /\ pre = Unused
    /\ history = Unused /\ counts = Unused /\ query = Unused /\ field = Unused
    /\ found = Unused /\ top = Unused

LuckyPick ==
    /\ pc = "start"
    /\ picked' \in lucky_pick(playlists, mode)
    /\ pc' = "picked"
    /\ UNCHANGED <<raw, normalized, renormalized, song, profile, mood, songs,
                   playlists, heap, a, b, merged, pre, mode, history, counts,
                   query, field, found, top>>

PickNext == LuckyPick

SpecPick == PickInit /\ [][PickNext]_vars

\* C2: when the sequence the mode selects is empty (no map at all, only a
\* Mixed bucket, ...), lucky_pick returns None and does not raise.
C2_PickNoneOnEmpty ==
    (/\ pc = "picked"
     /\ (IF mode = "hype" THEN get(playlists, "Hype", <<>>) = <<>>
         ELSE IF mode = "chill" THEN get(playlists, "Chill", <<>>) = <<>>
         ELSE get(playlists, "Hype", <<>>) = <<>> /\ get(playlists, "Chill", <<>>) = <<>>))
        => picked.raised = "" /\ picked.value = NoSong

-----------------------------------------------------------------------------
(* History Summarizer *)

\* the loop of history_summary with an unknown mood given a key of its own
RECURSIVE HistoryLoopNewKeys(_, _)
HistoryLoopNewKeys(h, c) ==
    IF h = <<>> THEN c
    ELSE LET m == get(Head(h), "mood", "Mixed")
         IN  HistoryLoopNewKeys(Tail(h),
                 [k \in DOMAIN c \cup {m} |-> IF k = m THEN get(c, m, 0) + 1 ELSE c[k]])

\* the `for song in history` loop, from the counts so far
RECURSIVE history_loop(_, _)
history_loop(h, c) ==
    IF h = <<>> THEN c
    ELSE LET m == get(Head(h), "mood", "Mixed")
         IN  IF m \notin DOMAIN c
             THEN history_loop(Tail(h), [c EXCEPT !["Mixed"] = @ + 1])
             ELSE history_loop(Tail(h), [c EXCEPT ![m] = @ + 1])

history_summary(h) == history_loop(h, [Hype |-> 0, Chill |-> 0, Mixed |-> 0])

-----------------------------------------------------------------------------
(* Specification of the History Summarizer: history_summary applied to a    *)
(* list of songs whose mood is one of the three labels, another label, or   *)
(* absent.                                                                  *)

MaxHistory == 3

HistorySongs ==
    { [title |-> "t"] } \cup
    { [title |-> "t", mood |-> m] : m \in {"Hype", "Chill", "Mixed", "Sad", ""} }

HistoryInit ==
    /\ pc = "start"
    /\ history \in SeqsUpTo(HistorySongs, MaxHistory)
    /\ counts = Unused
    /\ raw = Unused /\ normalized = Unused /\ renormalized = Unused /\ song = Unused
    /\ profile = Unused /\ mood = Unused /\ songs = Unused /\ playlists = Unused
    /\ heap = Unused /\ a = Unused /\ b = Unused /\ merged = Unused /\ pre = Unused
    /\ mode = Unused /\ picked = Unused /\ query = Unused /\ field = Unused
    /\ found = Unused /\ top = Unused

HistorySummary ==
    /\ pc = "start"
    /\ counts' = history_summary(history)
    /\ pc' = "summarized"
    /\ UNCHANGED <<raw, normalized, renormalized, song, profile, mood, songs,
                   playlists, heap, a, b, merged, pre, mode, picked, history,
                   query, field, found, top>>

HistoryNext == HistorySummary

SpecHistory == HistoryInit /\ [][HistoryNext]_vars

\* the songs of the history that the design counts under the label k
CountedAs(k) ==
    { n \in 1..Len(history) :
        IF "mood" \in DOMAIN history[n] /\ history[n]["mood"] \in Moods
        THEN history[n]["mood"] = k
        ELSE k = "Mixed" }

\* C8: history_summary returns a map with exactly the keys "Hype", "Chill",
\* "Mixed"; a song with one of these moods counts under it, a song with no
\* mood or any other mood counts under "Mixed", and the counts sum to the
\* length of the history.
C8_SummaryKeysAndCounts ==
    pc = "summarized" =>
        /\ DOMAIN counts = Moods
        /\ \A k \in Moods : counts[k] = Cardinality(CountedAs(k))
        /\ counts["Hype"] + counts["Chill"] + counts["Mixed"] = Len(history)

\* C8's case: a history holding a song with an unknown mood, one with no
\* mood and one with a known mood has been summarized.
C8_Witness ==
    /\ pc = "summarized"
    /\ \E n \in 1..Len(history) :
          "mood" \in DOMAIN history[n] /\ history[n]["mood"] \notin Moods
    /\ \E n \in 1..Len(history) : "mood" \notin DOMAIN history[n]
    /\ \E n \in 1..Len(history) :
          "mood" \in DOMAIN history[n] /\ history[n]["mood"] = "Hype"
    /\ counts["Mixed"] = 2

-----------------------------------------------------------------------------
(* Search *)

\* the test of search_songs with its operands swapped: `value in q`
MatchesSwapped(s, q, f) ==
    LET value == lower(py_str(get(s, f, PyStr(<<>>))))
    IN  value # <<>> /\ Contains(q, value)

\* `value and q in value` for one song
matches(s, q, f) ==
    LET value == lower(py_str(get(s, f, PyStr(<<>>))))
    IN  value # <<>> /\ Contains(value, q)

\* the `for song in songs` loop, from the songs kept so far
RECURSIVE search_loop(_, _, _, _)
search_loop(ss, q, f, filtered) ==
    IF ss = <<>> THEN filtered
    ELSE search_loop(Tail(ss), q, f,
                     IF matches(Head(ss), q, f) THEN Append(filtered, Head(ss))
                     ELSE filtered)

search_songs(ss, qry, f) ==
    IF ~truthy(qry) THEN ss
    ELSE search_loop(ss, normalize_input(qry, TRUE), f, <<>>)

-----------------------------------------------------------------------------
(* Specification of Search: search_songs applied to a list of songs, a     *)
(* query (a str, a number or None) and a field.                            *)

MaxSearch == 2

SearchSongs ==
    { [title |-> PyStr(<<"G","o">>), artist |-> PyStr(<<"a","c","/","d","c">>),
       energy |-> PyInt(7)],
      [title |-> PyStr(<<"W","a","t","e","r","l","o","o">>), artist |-> PyStr(<<"a","b","b","a">>),
       energy |-> PyInt(17)],
      [title |-> PyStr(<<"B"," ","a","c","k">>), artist |-> PyStr(<<>>), energy |-> PyInt(0)],
      [title |-> PyStr(<<"A","C">>)],
      [artist |-> PyStr(<<"b","a","c","h">>), energy |-> PyFloat(7)] }

Queries ==
    { PyStr(<<>>), PyNone, PyInt(0),
      PyStr(<<" ">>), PyStr(<<"\t"," ">>),
      PyStr(<<" ","A","C"," ">>), PyStr(<<"a","b","b","a"," ","!">>), PyStr(<<"z","z">>),
      PyStr(<<"a">>), PyStr(<<"7">>), PyInt(7), PyFloat(7) }

Fields == {"artist", "title", "energy"}

SearchInit ==
    /\ pc = "start"
    /\ songs \in SeqsUpTo(SearchSongs, MaxSearch)
    /\ query \in Queries
    /\ field \in Fields
    /\ found = Unused
    /\ raw = Unused /\ normalized = Unused /\ renormalized = Unused /\ song = Unused
    /\ profile = Unused /\ mood = Unused /\ playlists = Unused
    /\ heap = Unused /\ a = Unused /\ b = Unused /\ merged = Unused /\ pre = Unused
    /\ mode = Unused /\ picked = Unused /\ history = Unused /\ counts = Unused
    /\ top = Unused

SearchSongsCall ==
    /\ pc = "start"
    /\ found' = search_songs(songs, query, field)
    /\ pc' = "searched"
    /\ UNCHANGED <<raw, normalized, renormalized, song, profile, mood, songs,
                   playlists, heap, a, b, merged, pre, mode, picked, history,
                   counts, query, field, top>>

SearchNext == SearchSongsCall

SpecSearch == SearchInit /\ [][SearchNext]_vars

\* the query trimmed and lowercased
NormalizedQuery == strip(lower(py_str(query)))

\* the field value of songs[n] as a lowercased str, the empty str if the
\* song lacks the field
FieldValue(n) ==
    IF field \in DOMAIN songs[n] THEN lower(py_str(songs[n][field])) ELSE <<>>

\* needle occurs in hay
Occurs(needle, hay) ==
    \E from \in 1..(Len(hay) + 1) : \E to \in (from - 1)..Len(hay) :
        SubSeq(hay, from, to) = needle

\* the songs at the positions marked "yes", in input order
Kept(marks) ==
    LET at == PositionsOf(marks, "yes", 1)
    IN  [n \in 1..Len(at) |-> songs[at[n]]]

\* C9 as stated: for a truthy query search_songs returns, in input order,
\* exactly the songs whose field value contains the normalized query; a song
\* that lacks the field is never returned; a query matching no song yields
\* the empty sequence.
C9_SearchExactlyContaining ==
    (pc = "searched" /\ truthy(query)) =>
        /\ found = Kept([n \in 1..Len(songs) |->
                            IF Occurs(NormalizedQuery, FieldValue(n)) THEN "yes" ELSE "no"])
        /\ \A n \in 1..Len(songs) :
              field \notin DOMAIN songs[n] => \A m \in 1..Len(found) : found[m] # songs[n]
        /\ (\A n \in 1..Len(songs) : ~Occurs(NormalizedQuery, FieldValue(n)))
              => found = <<>>

\* C9 as amended: for a truthy query search_songs returns, in input order,
\* exactly the songs whose field value is not empty and contains the
\* normalized query; a song that lacks the field is never returned; a query
\* matching no song yields the empty sequence.
C9_SearchNonEmptyContaining ==
    (pc = "searched" /\ truthy(query)) =>
        /\ found = Kept([n \in 1..Len(songs) |->
                            IF FieldValue(n) # <<>> /\ Occurs(NormalizedQuery, FieldValue(n))
                            THEN "yes" ELSE "no"])
        /\ \A n \in 1..Len(songs) :
              field \notin DOMAIN songs[n] => \A m \in 1..Len(found) : found[m] # songs[n]
        /\ (\A n \in 1..Len(songs) :
                ~(FieldValue(n) # <<>> /\ Occurs(NormalizedQuery, FieldValue(n))))
              => found = <<>>

\* C9's case: a search whose query needed trimming and lowercasing has kept
\* one song and dropped another, among them a song that lacks the field.
C9_Witness ==
    /\ pc = "searched"
    /\ truthy(query)
    /\ query.t = "str" /\ NormalizedQuery # query.s /\ NormalizedQuery # <<>>
    /\ Len(songs) = 2 /\ Len(found) = 1
    /\ \E n \in 1..Len(songs) : field \notin DOMAIN songs[n]

-----------------------------------------------------------------------------
(* Most common artist *)

\* The dict `counts` keeps its keys in insertion order: it is modelled as the
\* sequence of its items, each [artist, count].

\* the `for song in songs` loop, from the counts so far
RECURSIVE count_loop(_, _)
count_loop(ss, c) ==
    IF ss = <<>> THEN c
    ELSE LET artist == py_str(get(Head(ss), "artist", PyStr(<<>>)))
         IN  IF artist = <<>> THEN count_loop(Tail(ss), c)
             ELSE IF \E n \in 1..Len(c) : c[n].artist = artist
             THEN count_loop(Tail(ss),
                      [n \in 1..Len(c) |->
                          IF c[n].artist = artist
                          THEN [artist |-> artist, count |-> c[n].count + 1]
                          ELSE c[n]])
             ELSE count_loop(Tail(ss), Append(c, [artist |-> artist, count |-> 1]))

\* a descending sort that is not stable: of two items with equal counts the
\* later one comes first
RECURSIVE SortedTiesReversed(_)
SortedTiesReversed(items) ==
    IF items = <<>> THEN <<>>
    ELSE LET x == items[Len(items)]
             done == SortedTiesReversed(SubSeq(items, 1, Len(items) - 1))
             ahead == Cardinality({n \in 1..Len(done) : done[n].count > x.count})
         IN  SubSeq(done, 1, ahead) \o <<x>> \o SubSeq(done, ahead + 1, Len(done))

\* sorted(items, key=count, reverse=True): descending and stable, so items
\* with equal counts keep their order
RECURSIVE sorted_by_count(_)
sorted_by_count(items) ==
    IF items = <<>> THEN <<>>
    ELSE LET x == items[Len(items)]
             done == sorted_by_count(SubSeq(items, 1, Len(items) - 1))
             ahead == Cardinality({n \in 1..Len(done) : done[n].count >= x.count})
         IN  SubSeq(done, 1, ahead) \o <<x>> \o SubSeq(done, ahead + 1, Len(done))

most_common_artist(ss) ==
    LET c == count_loop(ss, <<>>)
    IN  IF c = <<>> THEN << <<>>, 0 >>
        ELSE <<sorted_by_count(c)[1].artist, sorted_by_count(c)[1].count>>

-----------------------------------------------------------------------------
(* Specification of the artist count: most_common_artist applied to a list *)
(* of songs whose artist is a str, possibly empty, or absent.              *)

MaxArtistSongs == 4

ArtistSongs ==
    { [title |-> "t"] } \cup
    { [title |-> "t", artist |-> PyStr(x)] :
        x \in { <<>>, <<"a","b","b","a">>, <<"b","a","c","h">>, <<"c">> } }

ArtistInit ==
    /\ pc = "start"
    /\ songs \in SeqsUpTo(ArtistSongs, MaxArtistSongs)
    /\ top = Unused
    /\ raw = Unused /\ normalized = Unused /\ renormalized = Unused /\ song = Unused
    /\ profile = Unused /\ mood = Unused /\ playlists = Unused
    /\ heap = Unused /\ a = Unused /\ b = Unused /\ merged = Unused /\ pre = Unused
    /\ mode = Unused /\ picked = Unused /\ history = Unused /\ counts = Unused
    /\ query = Unused /\ field = Unused /\ found = Unused

MostCommonArtist ==
    /\ pc = "start"
    /\ top' = most_common_artist(songs)
    /\ pc' = "counted"
    /\ UNCHANGED <<raw, normalized, renormalized, song, profile, mood, songs,
                   playlists, heap, a, b, merged, pre, mode, picked, history,
                   counts, query, field, found>>

ArtistNext == MostCommonArtist

SpecArtist == ArtistInit /\ [][ArtistNext]_vars

\* the artist of songs[n], the empty str if the song has none
ArtistAt(n) == IF "artist" \in DOMAIN songs[n] THEN songs[n]["artist"].s ELSE <<>>

\* the positions of songs whose artist is x
SongsBy(x) == {n \in 1..Len(songs) : ArtistAt(n) = x}

\* the position at which the artist x first appears
FirstOf(x) == CHOOSE n \in SongsBy(x) : \A m \in SongsBy(x) : n <= m

\* C10: most_common_artist returns ("", 0) when no song has a non-empty
\* artist; otherwise a non-empty artist with its occurrence count, such that
\* no other artist occurs more often, and of the artists tied for the
\* highest count the one that appears first in songs.
C10_MostCommonFirstWins ==
    pc = "counted" =>
        IF \A n \in 1..Len(songs) : ArtistAt(n) = <<>>
        THEN top = << <<>>, 0 >>
        ELSE /\ top[1] # <<>>
             /\ top[2] = Cardinality(SongsBy(top[1]))
             /\ top[2] > 0
             /\ \A n \in 1..Len(songs) :
                   ArtistAt(n) # <<>> =>
                      /\ Cardinality(SongsBy(ArtistAt(n))) <= top[2]
                      /\ Cardinality(SongsBy(ArtistAt(n))) = top[2]
                            => FirstOf(top[1]) <= n

\* C10's case: two artists tie for the highest count, and the one returned
\* appears first although the other reaches that count earlier.
C10_Witness ==
    /\ pc = "counted"
    /\ Len(songs) >= 4
    /\ top[2] = 2
    /\ \E n \in 1..Len(songs) :
          /\ ArtistAt(n) \notin {<<>>, top[1]}
          /\ Cardinality(SongsBy(ArtistAt(n))) = 2
          /\ \A m \in SongsBy(ArtistAt(n)) : \E k \in SongsBy(top[1]) : k > m

====
